---- MODULE Spec2Model ----
(***************************************************************************)
(* Model of the three scripts of Atomic_Agents_Learn:                      *)
(*                                                                         *)
(*   "u"  scripts/A_deep_dive_into_atomic_agents_BaseAgent.py              *)
(*   "h"  scripts/A_deep_dive_into_atomic_agents-BaseAgent.py              *)
(*        scripts/A_deep_dive_into_atomic_agents-BaseTool.py               *)
(*                                                                         *)
(* The two BaseAgent scripts are modelled as two processes, each with its  *)
(* own copy of the script's globals, translated separately from the two    *)
(* files (definitions ending in _u and _h).  Both run against one          *)
(* environment: the same GROQ_API_KEY, the same lines typed on standard    *)
(* input and the same outcomes of the remote model call.  Text is a        *)
(* sequence of characters (one-character strings); fixed messages that no  *)
(* operation looks into are kept as one token.                             *)
(***************************************************************************)
EXTENDS Integers, Sequences, FiniteSets, TLC

(* ----------------------------- bounds ---------------------------------- *)

\* Number of lines the user types before leaving the keyboard.
MaxTurns == 3

\* Longest expression (in tokens) handed to the calculator tool.
MaxExprLen == 3

(* ------------------------ Python values -------------------------------- *)

\* Python's None (os.getenv of an unset variable).
None == "<None>"

\* Variant of Falsy: the test written as API_KEY == "", which lets None through.
Falsy_only_empty(v) == v = ""

\* Truth value of `not v` for v a str or None.
Falsy(v) == v = None \/ v = ""

UpperCase == [c \in {"E", "X", "I", "T", "Q", "U"} |->
                CASE c = "E" -> "e" [] c = "X" -> "x" [] c = "I" -> "i"
                  [] c = "T" -> "t" [] c = "Q" -> "q" [] c = "U" -> "u"]

\* str.lower(): every cased character replaced by its lowercase form.
Lower(text) == [i \in 1..Len(text) |->
                  IF text[i] \in DOMAIN UpperCase THEN UpperCase[text[i]] ELSE text[i]]

Whitespace == {" "}

\* str.strip(): the text without its leading and trailing whitespace.
RECURSIVE StripLeft(_)
StripLeft(text) ==
    IF text # <<>> /\ Head(text) \in Whitespace THEN StripLeft(Tail(text)) ELSE text

RECURSIVE StripRight(_)
StripRight(text) ==
    IF text # <<>> /\ text[Len(text)] \in Whitespace
      THEN StripRight(SubSeq(text, 1, Len(text) - 1)) ELSE text

Strip(text) == StripRight(StripLeft(text))

(* --------------------------- environment ------------------------------- *)

Scripts == {"u", "h"}

\* Values GROQ_API_KEY may have after load_dotenv(): unset, empty, a key.
EnvValues == {None, "", "gsk_env"}

\* Values of the static API_KEY assignment: "" as shipped, or the key the
\* script's comment invites the user to put there.
StaticValues == {"", "gsk_static"}

\* Lines the user may type: the exit commands in several spellings, one with
\* whitespace around it, and the empty line (the script treats any other
\* text as it treats the empty line: it compares it and passes it on).
Lines == { <<"/", "e", "x", "i", "t">>,
           <<"/", "E", "X", "I", "T">>,
           <<"/", "Q", "u", "i", "t">>,
           <<" ", "/", "e", "x", "i", "t", " ">>,
           <<>> }

Greeting == <<"How do you do and what can I do for you today?">>

\* chat_message texts the remote model may answer with.
Replies == { <<"Sure.">>, Greeting }

\* Outcome of one remote call: a structured reply, or an exception.
Outcomes == [ok : {TRUE}, chat_message : Replies] \cup {[ok |-> FALSE, chat_message |-> <<>>]}

VARIABLES
    GROQ_API_KEY,   \* the environment variable, None when unset
    static_API_KEY, \* the literal assigned to API_KEY before the lookup
    stdin,          \* the lines typed so far
    outcomes,       \* the outcomes of the remote calls made so far
    pc,             \* per script: position in the script
    API_KEY,        \* per script: the global API_KEY
    agent_memory,   \* per script: the AgentMemory's message log
    client,         \* per script: None, or the api_key the client holds
    user_input,     \* per script: the global user_input
    response,       \* per script: chat_message of the global response
    out,            \* per script: observable events so far
    exit_status,    \* per script: -1 while running, else the exit status
    turn,           \* per script: lines read from stdin
    calls,          \* per script: agent.run calls made
    outstanding,    \* per script: agent.run calls not yet returned
    expression,     \* calculator: params.expression (tokens)
    calc_pc,        \* calculator: "idle" | "call" | "returned" | "raised"
    calc_result     \* calculator: the output schema's result, or the error

chatVars == <<GROQ_API_KEY, static_API_KEY, stdin, outcomes, pc, API_KEY,
              agent_memory, client, user_input, response, out, exit_status,
              turn, calls, outstanding>>
calcVars == <<expression, calc_pc, calc_result>>
vars == <<chatVars, calcVars>>

Event(kind, text) == [ev |-> kind, text |-> text]

\* An uncaught exception: Python prints the traceback and exits with status 1.
Uncaught(name) == << Event("raise", <<name>>), Event("exit", <<"1">>) >>

\* Falling off the end of the script: exit status 0.
EndOfScript == << Event("exit", <<"0">>) >>

(* ------------- library behaviour (atomic_agents, spec 4.4/4.5) --------- *)

Message(role, content) ==
    [role |-> role, content |-> content, tool_message |-> "no tool used"]

\* AgentMemory.load: replaces the whole log by the given messages.
MemoryLoad(messages) == messages

\* AgentMemory after BaseAgent.run has recorded the user's message.
MemoryAfterUser(memory, text) == Append(memory, Message("user", text))

\* AgentMemory after BaseAgent.run has recorded the model's reply.
MemoryAfterReply(memory, text) == Append(memory, Message("assistant", text))

(* ---------------------- the shared environment ------------------------- *)

\* input(): the script's next line is the one already typed at that position,
\* or a new line typed now.
ReadLine(s, line) ==
    IF turn[s] < Len(stdin)
      THEN line = stdin[turn[s] + 1] /\ UNCHANGED stdin
      ELSE Len(stdin) < MaxTurns /\ stdin' = Append(stdin, line)

\* The remote call's outcome: the one already decided for that call, or a new one.
CallOutcome(s, o) ==
    IF calls[s] <= Len(outcomes)
      THEN o = outcomes[calls[s]] /\ UNCHANGED outcomes
      ELSE outcomes' = Append(outcomes, o)

Set(f, s, v) == [f EXCEPT ![s] = v]

(* ------------- A_deep_dive_into_atomic_agents_BaseAgent.py ------------- *)

initial_memory_message_u ==
    << [role |-> "assistant", content |-> Greeting, tool_message |-> "no tool used"] >>

ExitTokens_u == { <<"/", "e", "x", "i", "t">>, <<"/", "q", "u", "i", "t">> }

\* Variant of IsExitCommand_u: the comparison without .lower().
IsExitCommand_u_case_sensitive(text) == text \in ExitTokens_u

IsExitCommand_u(text) == Lower(text) \in ExitTokens_u

\* Variant of InputSchema_u: the line trimmed before it is handed over.
InputSchema_u_stripped(text) == Strip(text)

\* agent.input_schema(chat_message=user_input)
InputSchema_u(text) == text

LoadMemory_u ==
    /\ pc["u"] = "load_memory"
    /\ agent_memory' = Set(agent_memory, "u", MemoryLoad(initial_memory_message_u))
    /\ pc' = Set(pc, "u", "resolve_key")
    /\ UNCHANGED <<GROQ_API_KEY, static_API_KEY, stdin, outcomes, API_KEY, client,
                   user_input, response, out, exit_status, turn, calls, outstanding>>

\* Variant of ResolveKey_u: the environment's value taken whatever the static one.
ResolveKey_u_env_only ==
    /\ pc["u"] = "resolve_key"
    /\ API_KEY' = Set(API_KEY, "u", GROQ_API_KEY)
    /\ pc' = Set(pc, "u", "check_key")
    /\ UNCHANGED <<GROQ_API_KEY, static_API_KEY, stdin, outcomes, agent_memory, client,
                   user_input, response, out, exit_status, turn, calls, outstanding>>

ResolveKey_u ==
    /\ pc["u"] = "resolve_key"
    /\ API_KEY' = Set(API_KEY, "u",
                      IF Falsy(static_API_KEY) THEN GROQ_API_KEY ELSE static_API_KEY)
    /\ pc' = Set(pc, "u", "check_key")
    /\ UNCHANGED <<GROQ_API_KEY, static_API_KEY, stdin, outcomes, agent_memory, client,
                   user_input, response, out, exit_status, turn, calls, outstanding>>

CheckKey_u ==
    /\ pc["u"] = "check_key"
    /\ IF Falsy(API_KEY["u"])
         THEN /\ out' = Set(out, "u", out["u"] \o Uncaught("ValueError"))
              /\ exit_status' = Set(exit_status, "u", 1)
              /\ pc' = Set(pc, "u", "done")
         ELSE /\ pc' = Set(pc, "u", "build_agent")
              /\ UNCHANGED <<out, exit_status>>
    /\ UNCHANGED <<GROQ_API_KEY, static_API_KEY, stdin, outcomes, API_KEY, agent_memory,
                   client, user_input, response, turn, calls, outstanding>>

BuildAgent_u ==
    /\ pc["u"] = "build_agent"
    /\ client' = Set(client, "u", API_KEY["u"])
    /\ pc' = Set(pc, "u", "greet")
    /\ UNCHANGED <<GROQ_API_KEY, static_API_KEY, stdin, outcomes, API_KEY, agent_memory,
                   user_input, response, out, exit_status, turn, calls, outstanding>>

\* Variant of Greet_u: the message's tool_message printed instead of its content.
Greet_u_tool_message ==
    /\ pc["u"] = "greet"
    /\ out' = Set(out, "u", Append(out["u"],
                    Event("console.print", <<"Agent: ", initial_memory_message_u[1].tool_message>>)))
    /\ pc' = Set(pc, "u", "input")
    /\ UNCHANGED <<GROQ_API_KEY, static_API_KEY, stdin, outcomes, API_KEY, agent_memory,
                   client, user_input, response, exit_status, turn, calls, outstanding>>

Greet_u ==
    /\ pc["u"] = "greet"
    /\ out' = Set(out, "u", Append(out["u"],
                    Event("console.print", <<"Agent: ">> \o initial_memory_message_u[1].content)))
    /\ pc' = Set(pc, "u", "input")
    /\ UNCHANGED <<GROQ_API_KEY, static_API_KEY, stdin, outcomes, API_KEY, agent_memory,
                   client, user_input, response, exit_status, turn, calls, outstanding>>

Input_u ==
    /\ pc["u"] = "input"
    /\ \E line \in Lines :
          /\ ReadLine("u", line)
          /\ user_input' = Set(user_input, "u", line)
          /\ out' = Set(out, "u", out["u"] \o
                          << Event("prompt", <<"User: ">>), Event("read", line) >>)
    /\ turn' = Set(turn, "u", turn["u"] + 1)
    /\ pc' = Set(pc, "u", "dispatch")
    /\ UNCHANGED <<GROQ_API_KEY, static_API_KEY, outcomes, API_KEY, agent_memory,
                   client, response, exit_status, calls, outstanding>>

Exit_u ==
    /\ pc["u"] = "dispatch"
    /\ IsExitCommand_u(user_input["u"])
    /\ out' = Set(out, "u", Append(out["u"],
                    Event("print", <<"Exiting chat, see you later ...">>)) \o EndOfScript)
    /\ exit_status' = Set(exit_status, "u", 0)
    /\ pc' = Set(pc, "u", "done")
    /\ UNCHANGED <<GROQ_API_KEY, static_API_KEY, stdin, outcomes, API_KEY, agent_memory,
                   client, user_input, response, turn, calls, outstanding>>

\* Variant of CallRun_u: the call fired without waiting for its return.
CallRun_u_async ==
    /\ pc["u"] = "dispatch"
    /\ ~IsExitCommand_u(user_input["u"])
    /\ out' = Set(out, "u", Append(out["u"],
                    Event("agent.run", InputSchema_u(user_input["u"]))))
    /\ agent_memory' = Set(agent_memory, "u",
                           MemoryAfterUser(agent_memory["u"], InputSchema_u(user_input["u"])))
    /\ calls' = Set(calls, "u", calls["u"] + 1)
    /\ outstanding' = Set(outstanding, "u", outstanding["u"] + 1)
    /\ pc' = Set(pc, "u", "input")
    /\ UNCHANGED <<GROQ_API_KEY, static_API_KEY, stdin, outcomes, API_KEY, client,
                   user_input, response, exit_status, turn>>

CallRun_u ==
    /\ pc["u"] = "dispatch"
    /\ ~IsExitCommand_u(user_input["u"])
    /\ out' = Set(out, "u", Append(out["u"],
                    Event("agent.run", InputSchema_u(user_input["u"]))))
    /\ agent_memory' = Set(agent_memory, "u",
                           MemoryAfterUser(agent_memory["u"], InputSchema_u(user_input["u"])))
    /\ calls' = Set(calls, "u", calls["u"] + 1)
    /\ outstanding' = Set(outstanding, "u", outstanding["u"] + 1)
    /\ pc' = Set(pc, "u", "run")
    /\ UNCHANGED <<GROQ_API_KEY, static_API_KEY, stdin, outcomes, API_KEY, client,
                   user_input, response, exit_status, turn>>

RunReturns_u ==
    /\ pc["u"] = "run"
    /\ \E o \in Outcomes :
          /\ o.ok
          /\ CallOutcome("u", o)
          /\ agent_memory' = Set(agent_memory, "u",
                                 MemoryAfterReply(agent_memory["u"], o.chat_message))
          /\ response' = Set(response, "u", o.chat_message)
          /\ out' = Set(out, "u", Append(out["u"],
                          Event("print", <<"Agent: ">> \o o.chat_message)))
    /\ outstanding' = Set(outstanding, "u", outstanding["u"] - 1)
    /\ pc' = Set(pc, "u", "input")
    /\ UNCHANGED <<GROQ_API_KEY, static_API_KEY, stdin, API_KEY, client,
                   user_input, exit_status, turn, calls>>

\* Variant of RunRaises_u: the call wrapped in try/except, the error printed
\* and the loop continued.
RunRaises_u_caught ==
    /\ pc["u"] = "run"
    /\ \E o \in Outcomes :
          /\ ~o.ok
          /\ CallOutcome("u", o)
    /\ out' = Set(out, "u", Append(out["u"], Event("print", <<"Error: agent.run error">>)))
    /\ outstanding' = Set(outstanding, "u", outstanding["u"] - 1)
    /\ pc' = Set(pc, "u", "input")
    /\ UNCHANGED <<GROQ_API_KEY, static_API_KEY, stdin, API_KEY, agent_memory, client,
                   user_input, response, exit_status, turn, calls>>

RunRaises_u ==
    /\ pc["u"] = "run"
    /\ \E o \in Outcomes :
          /\ ~o.ok
          /\ CallOutcome("u", o)
    /\ out' = Set(out, "u", out["u"] \o Uncaught("agent.run error"))
    /\ exit_status' = Set(exit_status, "u", 1)
    /\ outstanding' = Set(outstanding, "u", outstanding["u"] - 1)
    /\ pc' = Set(pc, "u", "done")
    /\ UNCHANGED <<GROQ_API_KEY, static_API_KEY, stdin, API_KEY, agent_memory, client,
                   user_input, response, turn, calls>>

Script_u ==
    \/ LoadMemory_u \/ ResolveKey_u \/ CheckKey_u \/ BuildAgent_u \/ Greet_u
    \/ Input_u \/ Exit_u \/ CallRun_u \/ RunReturns_u \/ RunRaises_u

(* ------------- A_deep_dive_into_atomic_agents-BaseAgent.py ------------- *)

initial_memory_message_h ==
    << [role |-> "assistant", content |-> Greeting, tool_message |-> "no tool used"] >>

\* Variant of ExitTokens_h: /quit left out of the list.
ExitTokens_h_exit_only == { <<"/", "e", "x", "i", "t">> }

ExitTokens_h == { <<"/", "e", "x", "i", "t">>, <<"/", "q", "u", "i", "t">> }

\* Variant of IsExitCommand_h: the line trimmed before the comparison.
IsExitCommand_h_trimmed(text) == Lower(Strip(text)) \in ExitTokens_h

IsExitCommand_h(text) == Lower(text) \in ExitTokens_h

\* agent.input_schema(chat_message=user_input)
InputSchema_h(text) == text

LoadMemory_h ==
    /\ pc["h"] = "load_memory"
    /\ agent_memory' = Set(agent_memory, "h", MemoryLoad(initial_memory_message_h))
    /\ pc' = Set(pc, "h", "resolve_key")
    /\ UNCHANGED <<GROQ_API_KEY, static_API_KEY, stdin, outcomes, API_KEY, client,
                   user_input, response, out, exit_status, turn, calls, outstanding>>

ResolveKey_h ==
    /\ pc["h"] = "resolve_key"
    /\ API_KEY' = Set(API_KEY, "h",
                      IF Falsy(static_API_KEY) THEN GROQ_API_KEY ELSE static_API_KEY)
    /\ pc' = Set(pc, "h", "check_key")
    /\ UNCHANGED <<GROQ_API_KEY, static_API_KEY, stdin, outcomes, agent_memory, client,
                   user_input, response, out, exit_status, turn, calls, outstanding>>

CheckKey_h ==
    /\ pc["h"] = "check_key"
    /\ IF Falsy(API_KEY["h"])
         THEN /\ out' = Set(out, "h", out["h"] \o Uncaught("ValueError"))
              /\ exit_status' = Set(exit_status, "h", 1)
              /\ pc' = Set(pc, "h", "done")
         ELSE /\ pc' = Set(pc, "h", "build_agent")
              /\ UNCHANGED <<out, exit_status>>
    /\ UNCHANGED <<GROQ_API_KEY, static_API_KEY, stdin, outcomes, API_KEY, agent_memory,
                   client, user_input, response, turn, calls, outstanding>>

BuildAgent_h ==
    /\ pc["h"] = "build_agent"
    /\ client' = Set(client, "h", API_KEY["h"])
    /\ pc' = Set(pc, "h", "greet")
    /\ UNCHANGED <<GROQ_API_KEY, static_API_KEY, stdin, outcomes, API_KEY, agent_memory,
                   user_input, response, out, exit_status, turn, calls, outstanding>>

Greet_h ==
    /\ pc["h"] = "greet"
    /\ out' = Set(out, "h", Append(out["h"],
                    Event("console.print", <<"Agent: ">> \o initial_memory_message_h[1].content)))
    /\ pc' = Set(pc, "h", "input")
    /\ UNCHANGED <<GROQ_API_KEY, static_API_KEY, stdin, outcomes, API_KEY, agent_memory,
                   client, user_input, response, exit_status, turn, calls, outstanding>>

Input_h ==
    /\ pc["h"] = "input"
    /\ \E line \in Lines :
          /\ ReadLine("h", line)
          /\ user_input' = Set(user_input, "h", line)
          /\ out' = Set(out, "h", out["h"] \o
                          << Event("prompt", <<"User: ">>), Event("read", line) >>)
    /\ turn' = Set(turn, "h", turn["h"] + 1)
    /\ pc' = Set(pc, "h", "dispatch")
    /\ UNCHANGED <<GROQ_API_KEY, static_API_KEY, outcomes, API_KEY, agent_memory,
                   client, response, exit_status, calls, outstanding>>

Exit_h ==
    /\ pc["h"] = "dispatch"
    /\ IsExitCommand_h(user_input["h"])
    /\ out' = Set(out, "h", Append(out["h"],
                    Event("print", <<"Exiting chat, see you later ...">>)) \o EndOfScript)
    /\ exit_status' = Set(exit_status, "h", 0)
    /\ pc' = Set(pc, "h", "done")
    /\ UNCHANGED <<GROQ_API_KEY, static_API_KEY, stdin, outcomes, API_KEY, agent_memory,
                   client, user_input, response, turn, calls, outstanding>>

CallRun_h ==
    /\ pc["h"] = "dispatch"
    /\ ~IsExitCommand_h(user_input["h"])
    /\ out' = Set(out, "h", Append(out["h"],
                    Event("agent.run", InputSchema_h(user_input["h"]))))
    /\ agent_memory' = Set(agent_memory, "h",
                           MemoryAfterUser(agent_memory["h"], InputSchema_h(user_input["h"])))
    /\ calls' = Set(calls, "h", calls["h"] + 1)
    /\ outstanding' = Set(outstanding, "h", outstanding["h"] + 1)
    /\ pc' = Set(pc, "h", "run")
    /\ UNCHANGED <<GROQ_API_KEY, static_API_KEY, stdin, outcomes, API_KEY, client,
                   user_input, response, exit_status, turn>>

RunReturns_h ==
    /\ pc["h"] = "run"
    /\ \E o \in Outcomes :
          /\ o.ok
          /\ CallOutcome("h", o)
          /\ agent_memory' = Set(agent_memory, "h",
                                 MemoryAfterReply(agent_memory["h"], o.chat_message))
          /\ response' = Set(response, "h", o.chat_message)
          /\ out' = Set(out, "h", Append(out["h"],
                          Event("print", <<"Agent: ">> \o o.chat_message)))
    /\ outstanding' = Set(outstanding, "h", outstanding["h"] - 1)
    /\ pc' = Set(pc, "h", "input")
    /\ UNCHANGED <<GROQ_API_KEY, static_API_KEY, stdin, API_KEY, client,
                   user_input, exit_status, turn, calls>>

RunRaises_h ==
    /\ pc["h"] = "run"
    /\ \E o \in Outcomes :
          /\ ~o.ok
          /\ CallOutcome("h", o)
    /\ out' = Set(out, "h", out["h"] \o Uncaught("agent.run error"))
    /\ exit_status' = Set(exit_status, "h", 1)
    /\ outstanding' = Set(outstanding, "h", outstanding["h"] - 1)
    /\ pc' = Set(pc, "h", "done")
    /\ UNCHANGED <<GROQ_API_KEY, static_API_KEY, stdin, API_KEY, agent_memory, client,
                   user_input, response, turn, calls>>

Script_h ==
    \/ LoadMemory_h \/ ResolveKey_h \/ CheckKey_h \/ BuildAgent_h \/ Greet_h
    \/ Input_h \/ Exit_h \/ CallRun_h \/ RunReturns_h \/ RunRaises_h

(* ------------- A_deep_dive_into_atomic_agents-BaseTool.py -------------- *)

\* An expression is the text of its tokens separated by single spaces, as in
\* the script's own "2 + 2".
Numerals == {"0", "1", "2"}
Tokens == Numerals \cup {"+", "/"}
Expressions == UNION {[1..n -> Tokens] : n \in 1..MaxExprLen}

NumeralValue == [c \in Numerals |-> CASE c = "0" -> 0 [] c = "1" -> 1 [] c = "2" -> 2]

RECURSIVE Gcd(_, _)
Gcd(a, b) == IF b = 0 THEN a ELSE Gcd(b, a % b)

\* sympy numbers: a rational in lowest terms, zoo (complex infinity) or nan.
Rational(p, q) == [kind |-> "rational", num |-> p \div Gcd(p, q), den |-> q \div Gcd(p, q)]
zoo == [kind |-> "zoo", num |-> 0, den |-> 0]
nan == [kind |-> "nan", num |-> 0, den |-> 0]

\* sympy's a + b.
Add(a, b) ==
    CASE a.kind = "nan" \/ b.kind = "nan" -> nan
      [] a.kind = "zoo" /\ b.kind = "zoo" -> nan
      [] a.kind = "zoo" \/ b.kind = "zoo" -> zoo
      [] OTHER -> Rational(a.num * b.den + b.num * a.den, a.den * b.den)

\* sympy's a / b: no ZeroDivisionError, x/0 is zoo and 0/0 is nan.
Div(a, b) ==
    CASE a.kind = "nan" \/ b.kind = "nan" -> nan
      [] a.kind = "zoo" /\ b.kind = "zoo" -> nan
      [] a.kind = "zoo" -> zoo
      [] b.kind = "zoo" -> Rational(0, 1)
      [] b.num = 0 /\ a.num = 0 -> nan
      [] b.num = 0 -> zoo
      [] OTHER -> Rational(a.num * b.den, a.den * b.num)

Token(e, i) == IF i <= Len(e) THEN e[i] ELSE "<end>"
Parsed(v, i) == [ok |-> TRUE, val |-> v, pos |-> i]
SyntaxError(i) == [ok |-> FALSE, val |-> nan, pos |-> i]

\* factor: '+' factor | NUMBER
RECURSIVE ParseFactor(_, _)
ParseFactor(e, i) ==
    IF Token(e, i) = "+" THEN ParseFactor(e, i + 1)
    ELSE IF Token(e, i) \in Numerals
           THEN Parsed(Rational(NumeralValue[Token(e, i)], 1), i + 1)
           ELSE SyntaxError(i)

\* term: factor ('/' factor)*, left to right
RECURSIVE ParseTermRest(_, _, _)
ParseTermRest(e, acc, i) ==
    IF Token(e, i) = "/"
      THEN LET f == ParseFactor(e, i + 1)
           IN  IF f.ok THEN ParseTermRest(e, Div(acc, f.val), f.pos) ELSE f
      ELSE Parsed(acc, i)

ParseTerm(e, i) ==
    LET f == ParseFactor(e, i) IN IF f.ok THEN ParseTermRest(e, f.val, f.pos) ELSE f

\* expression: term ('+' term)*, left to right
RECURSIVE ParseExprRest(_, _, _)
ParseExprRest(e, acc, i) ==
    IF Token(e, i) = "+"
      THEN LET t == ParseTerm(e, i + 1)
           IN  IF t.ok THEN ParseExprRest(e, Add(acc, t.val), t.pos) ELSE t
      ELSE Parsed(acc, i)

\* sympify(text): the evaluated expression, or SympifyError when the text is
\* not an expression.
sympify(e) ==
    LET t == ParseTerm(e, 1)
        r == IF t.ok THEN ParseExprRest(e, t.val, t.pos) ELSE t
    IN  IF r.ok /\ r.pos = Len(e) + 1
          THEN [raised |-> FALSE, val |-> r.val]
          ELSE [raised |-> TRUE, val |-> nan]

\* expr.evalf(): the number as a Float; zoo and nan stay what they are.
evalf(v) == IF v.kind = "rational" THEN [v EXCEPT !.kind = "float"] ELSE v

DigitChar == [d \in 0..9 |->
                CASE d = 0 -> "0" [] d = 1 -> "1" [] d = 2 -> "2" [] d = 3 -> "3"
                  [] d = 4 -> "4" [] d = 5 -> "5" [] d = 6 -> "6" [] d = 7 -> "7"
                  [] d = 8 -> "8" [] d = 9 -> "9"]

RECURSIVE IntDigits(_)
IntDigits(n) == IF n < 10 THEN <<DigitChar[n]>>
                ELSE Append(IntDigits(n \div 10), DigitChar[n % 10])

\* Decimals of rem/den until `sig` significant digits are written; `started`
\* says whether a non-zero digit has been written.  (Exact for the values the
\* tokens can build; a non-terminating expansion is cut, not rounded.)
RECURSIVE FracDigits(_, _, _, _)
FracDigits(rem, den, sig, started) ==
    IF sig = 0 THEN <<>>
    ELSE LET d == (rem * 10) \div den
             on == started \/ d # 0
         IN  <<DigitChar[d]>> \o FracDigits((rem * 10) % den, den, IF on THEN sig - 1 ELSE sig, on)

\* Float's precision in str(): 15 significant digits.
FloatDigits == 15

\* str(result)
Str(v) ==
    CASE v.kind = "zoo" -> <<"z", "o", "o">>
      [] v.kind = "nan" -> <<"n", "a", "n">>
      [] v.num = 0 -> <<"0">>
      [] OTHER ->
           LET ip == v.num \div v.den
               id == IntDigits(ip)
           IN  id \o <<".">> \o
               FracDigits(v.num % v.den, v.den,
                          IF ip = 0 THEN FloatDigits ELSE FloatDigits - Len(id), ip # 0)

\* Variant of run: the call to sympify wrapped in try/except and the error
\* returned as the result.
run_swallowing ==
    /\ calc_pc = "call"
    /\ LET parsed_expr == sympify(expression)
       IN  /\ calc_pc' = "returned"
           /\ calc_result' = IF parsed_expr.raised THEN <<"SympifyError">>
                              ELSE Str(evalf(parsed_expr.val))
    /\ UNCHANGED expression

\* CalculatorTool.run(params)
run ==
    /\ calc_pc = "call"
    /\ LET parsed_expr == sympify(expression)
       IN  IF parsed_expr.raised
             THEN /\ calc_pc' = "raised"
                  /\ calc_result' = <<"SympifyError">>
             ELSE /\ calc_pc' = "returned"
                  /\ calc_result' = Str(evalf(parsed_expr.val))
    /\ UNCHANGED expression

(* --------------------------- specification ----------------------------- *)

ChatInit ==
    /\ GROQ_API_KEY \in EnvValues
    /\ static_API_KEY \in StaticValues
    /\ stdin = <<>>
    /\ outcomes = <<>>
    /\ pc = [s \in Scripts |-> "load_memory"]
    /\ API_KEY = [s \in Scripts |-> None]
    /\ agent_memory = [s \in Scripts |-> <<>>]
    /\ client = [s \in Scripts |-> None]
    /\ user_input = [s \in Scripts |-> <<>>]
    /\ response = [s \in Scripts |-> <<>>]
    /\ out = [s \in Scripts |-> <<>>]
    /\ exit_status = [s \in Scripts |-> -1]
    /\ turn = [s \in Scripts |-> 0]
    /\ calls = [s \in Scripts |-> 0]
    /\ outstanding = [s \in Scripts |-> 0]

CalcIdle ==
    /\ expression = <<>>
    /\ calc_pc = "idle"
    /\ calc_result = <<>>

Init == ChatInit /\ CalcIdle

ChatNext == Script_u \/ Script_h

Next == ChatNext /\ UNCHANGED calcVars

Spec == Init /\ [][Next]_vars

ChatParked ==
    /\ GROQ_API_KEY = None
    /\ static_API_KEY = ""
    /\ stdin = <<>>
    /\ outcomes = <<>>
    /\ pc = [s \in Scripts |-> "load_memory"]
    /\ API_KEY = [s \in Scripts |-> None]
    /\ agent_memory = [s \in Scripts |-> <<>>]
    /\ client = [s \in Scripts |-> None]
    /\ user_input = [s \in Scripts |-> <<>>]
    /\ response = [s \in Scripts |-> <<>>]
    /\ out = [s \in Scripts |-> <<>>]
    /\ exit_status = [s \in Scripts |-> -1]
    /\ turn = [s \in Scripts |-> 0]
    /\ calls = [s \in Scripts |-> 0]
    /\ outstanding = [s \in Scripts |-> 0]

CalcInit ==
    /\ ChatParked
    /\ expression \in Expressions
    /\ calc_pc = "call"
    /\ calc_result = <<>>

CalcNext == run /\ UNCHANGED chatVars

\* The calculator tool applied to every expression of the bounded set.
SpecCalc == CalcInit /\ [][CalcNext]_vars

(* ------------------------------ claims --------------------------------- *)

CapitalOf == [c \in {"e", "x", "i", "t", "q", "u"} |->
                CASE c = "e" -> "E" [] c = "x" -> "X" [] c = "i" -> "I"
                  [] c = "t" -> "T" [] c = "q" -> "Q" [] c = "u" -> "U"]

\* `text` spells `token` in some mixture of upper and lower case.
SpellsAnyCase(text, token) ==
    /\ Len(text) = Len(token)
    /\ \A i \in 1..Len(token) :
          \/ text[i] = token[i]
          \/ token[i] \in DOMAIN CapitalOf /\ text[i] = CapitalOf[token[i]]

SlashExit == <<"/", "e", "x", "i", "t">>
SlashQuit == <<"/", "q", "u", "i", "t">>

\* The exit commands, letter case ignored, nothing trimmed.
ExitAnyCase(text) == SpellsAnyCase(text, SlashExit) \/ SpellsAnyCase(text, SlashQuit)

\* The exit commands as section 4.6 words them: trimmed, letter case ignored.
ExitTrimmedAnyCase(text) == ExitAnyCase(Strip(text))

ExitingLine == Event("print", <<"Exiting chat, see you later ...">>)

\* The events of script s from index i on start with those of `events`.
Follows(s, i, events) ==
    /\ i + Len(events) - 1 <= Len(out[s])
    /\ \A j \in 1..Len(events) : out[s][i + j - 1] = events[j]

\* Index i of script s's events is a line read whose turn has gone on.
Dispatched(s, i) == out[s][i].ev = "read" /\ i < Len(out[s])

\* That turn ended the loop / handed the line to agent.run.
TerminatesAt(s, i) == Follows(s, i + 1, <<ExitingLine>> \o EndOfScript)
ProcessesAt(s, i) == out[s][i + 1].ev = "agent.run"

\* agent.run calls among the first i events of script s.
CallsUpTo(s, i) == Cardinality({j \in 1..i : out[s][j].ev = "agent.run"})

\* Script s's latest agent.run call has failed and is over.
FailedTurn(s) ==
    /\ calls[s] >= 1
    /\ calls[s] <= Len(outcomes)
    /\ ~outcomes[calls[s]].ok
    /\ outstanding[s] = 0

C2_ExitIffTrimmedAnyCase ==
    \A s \in Scripts : \A i \in DOMAIN out[s] :
        Dispatched(s, i) =>
            IF ExitTrimmedAnyCase(out[s][i].text)
              THEN TerminatesAt(s, i) ELSE ProcessesAt(s, i)

\* C2 amended: a line read ends the loop (exit status 0) exactly when, with
\* letter case ignored and nothing trimmed, it is /exit or /quit; every other
\* line, one with surrounding whitespace included, is handed to agent.run.
C2_ExitIffAnyCase ==
    \A s \in Scripts : \A i \in DOMAIN out[s] :
        Dispatched(s, i) =>
            IF ExitAnyCase(out[s][i].text)
              THEN TerminatesAt(s, i) /\ pc[s] = "done" /\ exit_status[s] = 0
              ELSE ProcessesAt(s, i) /\ ~TerminatesAt(s, i)

C2_Witness ==
    \E s \in Scripts : \E i, j \in DOMAIN out[s] :
        /\ Dispatched(s, i) /\ out[s][i].text = <<" ", "/", "e", "x", "i", "t", " ">>
        /\ ProcessesAt(s, i)
        /\ Dispatched(s, j) /\ out[s][j].text = <<"/", "Q", "u", "i", "t">>
        /\ TerminatesAt(s, j)

InteractiveEvents == {"console.print", "prompt", "read", "agent.run", "print"}

\* C3: with GROQ_API_KEY unset and no static key, the script gets no further
\* than the key check: it prints no greeting, reads no input, calls agent.run
\* never, and once over it has exit status 1 and has produced the ValueError
\* only.
C3_MissingKeyFailsBeforeGreeting ==
    (GROQ_API_KEY = None /\ static_API_KEY = "") =>
        \A s \in Scripts :
            /\ \A i \in DOMAIN out[s] : out[s][i].ev \notin InteractiveEvents
            /\ turn[s] = 0 /\ calls[s] = 0
            /\ pc[s] \in {"load_memory", "resolve_key", "check_key", "done"}
            /\ exit_status[s] # 0
            /\ pc[s] = "done" => exit_status[s] = 1 /\ out[s] = Uncaught("ValueError")

C3_Witness ==
    /\ GROQ_API_KEY = None /\ static_API_KEY = ""
    /\ \A s \in Scripts : pc[s] = "done" /\ exit_status[s] = 1

\* C4: a turn whose line is /exit in any letter case ends the script with exit
\* status 0, prints the farewell only, makes no agent.run call and leaves the
\* conversation memory as it was.
C4_ExitTurnCallsNothing ==
    [][\A s \in Scripts :
          (pc[s] = "dispatch" /\ pc'[s] # "dispatch" /\ SpellsAnyCase(user_input[s], SlashExit)) =>
              /\ pc'[s] = "done"
              /\ exit_status'[s] = 0
              /\ calls'[s] = calls[s]
              /\ outstanding'[s] = 0
              /\ agent_memory'[s] = agent_memory[s]
              /\ out'[s] = out[s] \o <<ExitingLine>> \o EndOfScript]_vars

C4_Witness ==
    \E s \in Scripts :
        /\ pc[s] = "done" /\ exit_status[s] = 0
        /\ user_input[s] = <<"/", "E", "X", "I", "T">>
        /\ Len(agent_memory[s]) = 3
        /\ calls[s] = 1

\* The key the script is meant to run with: the static one when non-empty,
\* otherwise the environment's.
ResolvedCredential == IF static_API_KEY # "" THEN static_API_KEY ELSE GROQ_API_KEY

\* C5: a constructed client holds the resolved credential and it is a
\* non-empty string; every script past the key check has a client; and with
\* the resolved credential absent or empty no client is ever constructed and
\* the script never gets past the key check.
C5_ClientHoldsNonEmptyCredential ==
    \A s \in Scripts :
        /\ client[s] # None => client[s] # "" /\ client[s] = ResolvedCredential
        /\ pc[s] \in {"greet", "input", "dispatch", "run"} => client[s] # None
        /\ ResolvedCredential \in {None, ""} =>
              /\ client[s] = None
              /\ pc[s] \in {"load_memory", "resolve_key", "check_key", "done"}

C5_Witness ==
    \E s \in Scripts :
        /\ static_API_KEY = "" /\ client[s] = "gsk_env" /\ pc[s] = "input"

OneOverZero == <<"1", "/", "0">>
TwoPlus == <<"2", "+">>

RECURSIVE WellFormed(_, _)
WellFormed(e, wantOperand) ==
    IF e = <<>> THEN ~wantOperand
    ELSE IF wantOperand
           THEN \/ Head(e) \in Numerals /\ WellFormed(Tail(e), FALSE)
                \/ Head(e) = "+" /\ WellFormed(Tail(e), TRUE)
           ELSE Head(e) \in {"+", "/"} /\ WellFormed(Tail(e), TRUE)

C7_OneCallOutstanding ==
    \A s \in Scripts :
        /\ outstanding[s] \in {0, 1}
        /\ outstanding[s] = 1 <=> pc[s] = "run"
        /\ pc[s] \in {"input", "dispatch"} => outstanding[s] = 0

C7_Witness ==
    \E s \in Scripts : outstanding[s] = 1 /\ calls[s] >= 2

\* The list script s hands to agent_memory.load.
LoadedMessages(s) == IF s = "u" THEN initial_memory_message_u ELSE initial_memory_message_h

\* C8: once the loop is entered the first event is the greeting, printed
\* through the console as "Agent: " followed by the content of the first
\* message loaded into the conversation memory, every prompt comes after it,
\* and no other event is a console print.
C8_GreetingOnceBeforePrompts ==
    \A s \in Scripts :
        /\ Cardinality({i \in DOMAIN out[s] : out[s][i].ev = "console.print"}) <= 1
        /\ \A i \in DOMAIN out[s] : out[s][i].ev = "console.print" => i = 1
        /\ (pc[s] \in {"input", "dispatch", "run"} \/ turn[s] > 0) =>
              /\ out[s] # <<>>
              /\ out[s][1] = Event("console.print",
                                   <<"Agent: ">> \o LoadedMessages(s)[1].content)

C8_Witness ==
    \E s \in Scripts :
        /\ turn[s] >= 2
        /\ \E i \in DOMAIN out[s] : out[s][i] = Event("print", <<"Agent: ">> \o Greeting)

\* C9: every line read that is not an exit command is handed to agent.run
\* once, unchanged; when that call succeeds the next event is the one line
\* "Agent: " followed by the returned chat_message, then comes the next
\* prompt, and the script is not over.
C9_NonExitLineSubmittedOnce ==
    \A s \in Scripts : \A i \in DOMAIN out[s] :
        (out[s][i].ev = "read" /\ ~ExitAnyCase(out[s][i].text)) =>
            /\ i + 1 <= Len(out[s]) => out[s][i + 1] = Event("agent.run", out[s][i].text)
            /\ i + 2 <= Len(out[s]) =>
                  /\ CallsUpTo(s, i + 1) <= Len(outcomes)
                  /\ LET o == outcomes[CallsUpTo(s, i + 1)]
                     IN  o.ok =>
                            /\ out[s][i + 2] = Event("print", <<"Agent: ">> \o o.chat_message)
                            /\ i + 2 = Len(out[s]) => pc[s] = "input" /\ exit_status[s] = -1
                            /\ i + 3 <= Len(out[s]) => out[s][i + 3].ev = "prompt"

C9_Witness ==
    \E s \in Scripts : \E i \in DOMAIN out[s] :
        /\ out[s][i] = Event("read", <<>>)
        /\ Follows(s, i + 1, << Event("agent.run", <<>>),
                                Event("print", <<"Agent: ", "Sure.">>),
                                Event("prompt", <<"User: ">>) >>)

IsPrefix(a, b) == Len(a) <= Len(b) /\ SubSeq(b, 1, Len(a)) = a

\* C10: against the same environment the two scripts produce the same events:
\* at any time one script's events are the beginning of the other's, and two
\* scripts at the same position of the same turn, or both over, have produced
\* the same events and the same exit status.
C10_ScriptsEquivalent ==
    /\ IsPrefix(out["u"], out["h"]) \/ IsPrefix(out["h"], out["u"])
    /\ (pc["u"] = pc["h"] /\ turn["u"] = turn["h"]) =>
          /\ out["u"] = out["h"]
          /\ exit_status["u"] = exit_status["h"]
          /\ agent_memory["u"] = agent_memory["h"]

C10_Witness ==
    /\ pc["u"] = "done" /\ pc["h"] = "done"
    /\ exit_status["u"] = 0 /\ exit_status["h"] = 0
    /\ turn["u"] >= 2 /\ Len(outcomes) >= 1
    /\ out["u"] = out["h"]

====
